---- MODULE Spec2Model ----
(***************************************************************************)
(* The tic-tac-toe program of tic-tac-toe/src/main.rs as a state machine:  *)
(* the Board (grid, current_turn, winner), the locals of one loop          *)
(* iteration (guess, square), the position in the loop body (pc) and how   *)
(* the process ended.                                                      *)
(***************************************************************************)
EXTENDS Integers, Sequences, FiniteSets, TLC

VARIABLES
    grid,             \* board.grid
    current_turn,     \* board.current_turn
    winner,           \* board.winner
    pc,               \* the position in main
    guess,            \* the local guess of the iteration
    square,           \* the local square of the iteration
    last_read,        \* what the latest read_line returned: a line or eof
    last_iteration,   \* how the latest finished iteration ended (history)
    panic_msg,        \* the message of the panic that ended the process
    overflow_checks,  \* the build: arithmetic overflow checks on or off
    placements,       \* how many times line 64 wrote a cell (history)
    renders,          \* how many boards were printed to stdout
    win_msg           \* the win message printed to stdout, "" if none

vars == <<grid, current_turn, winner, pc, guess, square, last_read,
          last_iteration, panic_msg, overflow_checks, placements, renders,
          win_msg>>

\* what the history and the output add to the state
Out == <<placements, renders, win_msg>>

-----------------------------------------------------------------------------
(* Types *)

\* enum Player { X, O }
Player == {"X", "O"}

\* Option<Player>: None or Some(p), Some(p) written as p
None == "None"
OptionPlayer == Player \cup {None}

\* the grid is 3 by 3: rows and columns 0..2
Size == 3
Idx == 0 .. (Size - 1)

\* usize::MAX.  TLC's integers are 32 bits wide, so the 64-bit usize is
\* scaled to 16 bits; the program only compares its usize values with 8.
UsizeMax == 65535

\* the largest number the players type
MaxNum == 11

\* Board { grid: [[None; 3]; 3], .. }
EmptyGrid == [r \in Idx |-> [c \in Idx |-> None]]

Boards == [Idx -> [Idx -> OptionPlayer]]

-----------------------------------------------------------------------------
(* Lines of text and their conversion to a number *)

Digits == <<"0", "1", "2", "3", "4", "5", "6", "7", "8", "9">>

IsDigit(ch) == \E i \in 1 .. 10 : Digits[i] = ch

DigitVal(ch) == (CHOOSE i \in 1 .. 10 : Digits[i] = ch) - 1

\* char::is_whitespace, on the characters the lines are made of
IsWhitespace(ch) == ch \in {" ", "\n", "\t", "\r"}

RECURSIVE TrimStart(_)
TrimStart(s) ==
    IF s # <<>> /\ IsWhitespace(Head(s)) THEN TrimStart(Tail(s)) ELSE s

RECURSIVE TrimEnd(_)
TrimEnd(s) ==
    IF s # <<>> /\ IsWhitespace(s[Len(s)])
    THEN TrimEnd(SubSeq(s, 1, Len(s) - 1))
    ELSE s

\* str::trim
Trim(s) == TrimEnd(TrimStart(s))

\* Result<usize, ParseIntError>
ParseErr == [tag |-> "Err", val |-> 0]
ParseOk(n) == [tag |-> "Ok", val |-> n]
\* the local before the line is parsed
Unset == [tag |-> "Unset", val |-> 0]

\* the digit loop of usize::from_str: an invalid digit or a value above
\* usize::MAX is an error
RECURSIVE ParseDigits(_, _)
ParseDigits(s, acc) ==
    IF s = <<>> THEN ParseOk(acc)
    ELSE IF ~IsDigit(Head(s)) THEN ParseErr
    ELSE IF acc * 10 + DigitVal(Head(s)) > UsizeMax THEN ParseErr
    ELSE ParseDigits(Tail(s), acc * 10 + DigitVal(Head(s)))

\* str::parse::<usize>: empty, or a lone sign, is an error; one leading "+"
\* is accepted; "-" is no digit of an unsigned number
ParseUsize(s) ==
    IF s = <<>> THEN ParseErr
    ELSE IF Len(s) = 1 /\ Head(s) \in {"+", "-"} THEN ParseErr
    ELSE IF Head(s) = "+" THEN ParseDigits(Tail(s), 0)
    ELSE ParseDigits(s, 0)

\* the decimal numeral of n, as the player types it
RECURSIVE Numeral(_)
Numeral(n) ==
    IF n < 10 THEN <<Digits[n + 1]>>
    ELSE Numeral(n \div 10) \o <<Digits[(n % 10) + 1]>>

\* the lines read_line can deliver: numerals with and without the newline,
\* padded, signed, zero-prefixed, and text that is no number
NumberLines ==
    UNION {{Numeral(n) \o <<"\n">>,
            Numeral(n),
            <<" ">> \o Numeral(n) \o <<" ", "\r", "\n">>,
            <<"+">> \o Numeral(n) \o <<"\n">>,
            <<"0">> \o Numeral(n) \o <<"\n">>} : n \in 0 .. MaxNum}

JunkLines ==
    {<<"\n">>, <<" ", "\n">>, <<"a", "\n">>, <<"-", "1", "\n">>,
     <<"+", "\n">>, <<"-", "\n">>, <<"1", " ", "2", "\n">>,
     <<"1", ".", "5", "\n">>, <<"1", "a", "\n">>, <<"+", "+", "1", "\n">>,
     <<"x">>}

Lines == NumberLines \cup JunkLines

-----------------------------------------------------------------------------
(* The win check of one loop iteration, lines 79-107 *)

Other(p) == IF p = "X" THEN "O" ELSE "X"

\* the row test without its third cell
RowWinsTwoCells(row) == row[0] = row[1] /\ row[0] # None

\* row[0] == row[1] && row[1] == row[2] && row[0].is_some()
RowWins(row) == row[0] = row[1] /\ row[1] = row[2] /\ row[0] # None

\* for row in board.grid { if .. { board.winner = row[0]; } }
RECURSIVE CheckRowsFrom(_, _, _)
CheckRowsFrom(g, w, r) ==
    IF r >= Size THEN w
    ELSE CheckRowsFrom(g, IF RowWins(g[r]) THEN g[r][0] ELSE w, r + 1)

\* the row loop stopping at its first match, top to bottom
CheckRowsFirstMatch(g, w) ==
    IF RowWins(g[0]) THEN g[0][0]
    ELSE IF RowWins(g[1]) THEN g[1][0]
    ELSE IF RowWins(g[2]) THEN g[2][0]
    ELSE w

CheckRows(g, w) == CheckRowsFrom(g, w, 0)

ColWins(g, i) == g[0][i] = g[1][i] /\ g[1][i] = g[2][i] /\ g[0][i] # None

\* for i in 0..3_usize { if .. { board.winner = board.grid[0][i]; } }
RECURSIVE CheckColsFrom(_, _, _)
CheckColsFrom(g, w, i) ==
    IF i >= 3 THEN w
    ELSE CheckColsFrom(g, IF ColWins(g, i) THEN g[0][i] ELSE w, i + 1)

CheckCols(g, w) == CheckColsFrom(g, w, 0)

\* the main diagonal check clearing a winner that is already recorded
CheckDiagClearsRecorded(g, w) ==
    IF g[0][0] = g[1][1] /\ g[1][1] = g[2][2] /\ g[0][0] # None
    THEN (IF w = None THEN g[0][0] ELSE None)
    ELSE w

CheckDiag(g, w) ==
    IF g[0][0] = g[1][1] /\ g[1][1] = g[2][2] /\ g[0][0] # None
    THEN g[0][0] ELSE w

\* the anti-diagonal check reading cell [2][2] where it should read [2][0]
CheckAntiWrongCell(g, w) ==
    IF g[0][2] = g[1][1] /\ g[1][1] = g[2][2] /\ g[0][2] # None
    THEN g[0][2] ELSE w

CheckAnti(g, w) ==
    IF g[0][2] = g[1][1] /\ g[1][1] = g[2][0] /\ g[0][2] # None
    THEN g[0][2] ELSE w

\* the pass without its column loop
EvaluatePassNoColumns(g, w) == CheckAnti(g, CheckDiag(g, CheckRows(g, w)))

\* the whole pass: rows, columns, main diagonal, anti-diagonal, each match
\* overwriting board.winner
EvaluatePass(g, w) == CheckAnti(g, CheckDiag(g, CheckCols(g, CheckRows(g, w))))

-----------------------------------------------------------------------------
(* The move, lines 58-64 *)

\* guess.unwrap() - 1 without overflow checks: the subtraction wraps
WrappingSub1(n) == IF n = 0 THEN UsizeMax ELSE n - 1

\* the validation without its occupancy test
RejectedBoundsOnly(g, sq) == sq > 8

\* square > 8 || board.grid[square / 3][square % 3].is_some(): the grid is
\* indexed only when square <= 8
Rejected(g, sq) == IF sq > 8 THEN TRUE ELSE g[sq \div 3][sq % 3] # None

\* the grid write with row and column swapped
PlaceMarkTransposed(g, sq, p) == [g EXCEPT ![sq % 3][sq \div 3] = p]

\* board.grid[square / 3][square % 3] = Some(board.current_turn)
PlaceMark(g, sq, p) == [g EXCEPT ![sq \div 3][sq % 3] = p]

-----------------------------------------------------------------------------
(* The program *)

TypeOK ==
    /\ grid \in Boards
    /\ current_turn \in Player
    /\ winner \in OptionPlayer
    /\ pc \in {"prompt", "read", "parsed", "validate", "print", "evaluate",
               "match", "toggle", "done", "panicked"}
    /\ \/ guess \in {Unset, ParseErr}
       \/ guess.tag = "Ok" /\ guess.val \in 0 .. UsizeMax
    /\ square \in 0 .. UsizeMax
    /\ last_read \in {"none", "line", "eof"}
    /\ last_iteration \in {"none", "unparsed", "rejected", "placed"}
    /\ panic_msg \in {"", "Could not flush stdout", "Failed to read line",
                      "attempt to subtract with overflow"}
    /\ overflow_checks \in BOOLEAN
    /\ placements \in Nat
    /\ renders \in Nat
    /\ win_msg \in {"", "X wins", "O wins"}

\* lines 41-45; overflow_checks is the build: on in a debug build, off in a
\* release build
Init ==
    /\ grid = EmptyGrid
    /\ current_turn = "X"
    /\ winner = None
    /\ pc = "prompt"
    /\ guess = Unset
    /\ square = 0
    /\ last_read = "none"
    /\ last_iteration = "none"
    /\ panic_msg = ""
    /\ overflow_checks \in BOOLEAN
    /\ placements = 0
    /\ renders = 0
    /\ win_msg = ""

Board == <<grid, current_turn, winner>>

\* the two match arms with their messages exchanged
WinMessageSwapped(p) == IF p = "X" THEN "O wins" ELSE "X wins"

\* print!("X wins") / print!("O wins")
WinMessage(p) == IF p = "X" THEN "X wins" ELSE "O wins"

Panic(msg) ==
    /\ pc' = "panicked"
    /\ panic_msg' = msg

\* `continue`, and the end of the loop body: the locals of the iteration die
NextIteration(how) ==
    /\ last_iteration' = how
    /\ pc' = "prompt"
    /\ guess' = Unset
    /\ square' = 0

\* lines 47-48: the prompt is printed and stdout flushed
Prompt ==
    /\ pc = "prompt"
    /\ pc' = "read"
    /\ UNCHANGED <<Board, guess, square, last_read,
                   last_iteration, panic_msg, overflow_checks, Out>>

\* line 48: .expect("Could not flush stdout")
FlushFails ==
    /\ pc = "prompt"
    /\ Panic("Could not flush stdout")
    /\ UNCHANGED <<Board, guess, square, last_read,
                   last_iteration, overflow_checks, Out>>

\* lines 50-53: a line arrives, is trimmed and parsed
ReadLine ==
    /\ pc = "read"
    /\ \E line \in Lines : guess' = ParseUsize(Trim(line))
    /\ last_read' = "line"
    /\ pc' = "parsed"
    /\ UNCHANGED <<Board, square, last_iteration, panic_msg,
                   overflow_checks, Out>>

\* lines 50-53 at end of input: read_line returns Ok(0) and appends nothing,
\* so the empty String is trimmed and parsed
ReadEof ==
    /\ pc = "read"
    /\ guess' = ParseUsize(Trim(<<>>))
    /\ last_read' = "eof"
    /\ pc' = "parsed"
    /\ UNCHANGED <<Board, square, last_iteration, panic_msg,
                   overflow_checks, Out>>

\* line 52: read_line returns Err, .expect("Failed to read line")
ReadFails ==
    /\ pc = "read"
    /\ Panic("Failed to read line")
    /\ UNCHANGED <<Board, guess, square, last_read,
                   last_iteration, overflow_checks, Out>>

\* a discarded line that passes the turn
RejectUnparsedTogglesTurn ==
    /\ pc = "parsed"
    /\ guess.tag = "Err"
    /\ current_turn' = Other(current_turn)
    /\ NextIteration("unparsed")
    /\ UNCHANGED <<grid, winner, last_read, panic_msg, overflow_checks, Out>>

\* lines 55-57
RejectUnparsed ==
    /\ pc = "parsed"
    /\ guess.tag = "Err"
    /\ NextIteration("unparsed")
    /\ UNCHANGED <<Board, last_read, panic_msg, overflow_checks, Out>>

\* line 58, the subtraction in range or wrapping
ToSquare ==
    /\ pc = "parsed"
    /\ guess.tag = "Ok"
    /\ ~(overflow_checks /\ guess.val = 0)
    /\ square' = WrappingSub1(guess.val)
    /\ pc' = "validate"
    /\ UNCHANGED <<Board, guess, last_read,
                   last_iteration, panic_msg, overflow_checks, Out>>

\* line 58 with overflow checks: 0 - 1 panics
SubtractOverflows ==
    /\ pc = "parsed"
    /\ guess.tag = "Ok"
    /\ overflow_checks /\ guess.val = 0
    /\ Panic("attempt to subtract with overflow")
    /\ UNCHANGED <<Board, guess, square, last_read,
                   last_iteration, overflow_checks, Out>>

\* a rejection that passes the turn
RejectSquareTogglesTurn ==
    /\ pc = "validate"
    /\ Rejected(grid, square)
    /\ current_turn' = Other(current_turn)
    /\ NextIteration("rejected")
    /\ UNCHANGED <<grid, winner, last_read, panic_msg, overflow_checks, Out>>

\* lines 59-61
RejectSquare ==
    /\ pc = "validate"
    /\ Rejected(grid, square)
    /\ NextIteration("rejected")
    /\ UNCHANGED <<Board, last_read, panic_msg, overflow_checks, Out>>

\* a placement that goes on to the win check without printing the board
PlaceSkipsPrint ==
    /\ pc = "validate"
    /\ ~Rejected(grid, square)
    /\ grid' = PlaceMark(grid, square, current_turn)
    /\ placements' = placements + 1
    /\ pc' = "evaluate"
    /\ UNCHANGED <<current_turn, winner, guess, square, last_read,
                   last_iteration, panic_msg, overflow_checks, renders,
                   win_msg>>

\* lines 59 and 64
Place ==
    /\ pc = "validate"
    /\ ~Rejected(grid, square)
    /\ grid' = PlaceMark(grid, square, current_turn)
    /\ placements' = placements + 1
    /\ pc' = "print"
    /\ UNCHANGED <<current_turn, winner, guess, square, last_read,
                   last_iteration, panic_msg, overflow_checks, renders,
                   win_msg>>

\* lines 66-77
PrintBoard ==
    /\ pc = "print"
    /\ renders' = renders + 1
    /\ pc' = "evaluate"
    /\ UNCHANGED <<Board, guess, square, last_read, last_iteration,
                   panic_msg, overflow_checks, placements, win_msg>>

\* lines 79-107
Evaluate ==
    /\ pc = "evaluate"
    /\ winner' = EvaluatePass(grid, winner)
    /\ pc' = "match"
    /\ UNCHANGED <<grid, current_turn, guess, square, last_read,
                   last_iteration, panic_msg, overflow_checks, Out>>

\* the win message without the break
WinWithoutBreak ==
    /\ pc = "match"
    /\ winner # None
    /\ win_msg' = WinMessage(winner)
    /\ pc' = "toggle"
    /\ UNCHANGED <<Board, guess, square, last_read, last_iteration,
                   panic_msg, overflow_checks, placements, renders>>

\* lines 109-117: the win message, break, and main returns
Win ==
    /\ pc = "match"
    /\ winner # None
    /\ win_msg' = WinMessage(winner)
    /\ pc' = "done"
    /\ UNCHANGED <<Board, guess, square, last_read, last_iteration,
                   panic_msg, overflow_checks, placements, renders>>

\* line 118
NoWin ==
    /\ pc = "match"
    /\ winner = None
    /\ pc' = "toggle"
    /\ UNCHANGED <<Board, guess, square, last_read,
                   last_iteration, panic_msg, overflow_checks, Out>>

\* both branches of the toggle assigning Player::X
ToggleTurnAlwaysX ==
    /\ pc = "toggle"
    /\ current_turn' = "X"
    /\ NextIteration("placed")
    /\ UNCHANGED <<grid, winner, last_read, panic_msg, overflow_checks, Out>>

\* lines 121-125, then the next iteration
ToggleTurn ==
    /\ pc = "toggle"
    /\ current_turn' = Other(current_turn)
    /\ NextIteration("placed")
    /\ UNCHANGED <<grid, winner, last_read, panic_msg, overflow_checks, Out>>

Next ==
    \/ Prompt
    \/ FlushFails
    \/ ReadLine
    \/ ReadEof
    \/ ReadFails
    \/ RejectUnparsed
    \/ ToSquare
    \/ SubtractOverflows
    \/ RejectSquare
    \/ Place
    \/ PrintBoard
    \/ Evaluate
    \/ Win
    \/ NoWin
    \/ ToggleTurn

Spec == Init /\ [][Next]_vars

-----------------------------------------------------------------------------
(* The win check on every grid, reachable in play or not *)

InitEval ==
    /\ grid \in Boards
    /\ current_turn \in Player
    /\ winner = None
    /\ pc = "evaluate"
    /\ guess = ParseOk(1)
    /\ square = 0
    /\ last_read = "line"
    /\ last_iteration = "none"
    /\ panic_msg = ""
    /\ overflow_checks \in BOOLEAN
    /\ placements =
           Cardinality({cell \in Idx \X Idx : grid[cell[1]][cell[2]] # None})
    /\ renders = placements
    /\ win_msg = ""

NextEval == Evaluate

SpecEval == InitEval /\ [][NextEval]_vars

-----------------------------------------------------------------------------
(* What the properties speak of *)

\* the 8 lines, in the order of the win check: rows top to bottom, columns
\* left to right, main diagonal, anti-diagonal
WinLines ==
    << <<<<0, 0>>, <<0, 1>>, <<0, 2>>>>,
       <<<<1, 0>>, <<1, 1>>, <<1, 2>>>>,
       <<<<2, 0>>, <<2, 1>>, <<2, 2>>>>,
       <<<<0, 0>>, <<1, 0>>, <<2, 0>>>>,
       <<<<0, 1>>, <<1, 1>>, <<2, 1>>>>,
       <<<<0, 2>>, <<1, 2>>, <<2, 2>>>>,
       <<<<0, 0>>, <<1, 1>>, <<2, 2>>>>,
       <<<<0, 2>>, <<1, 1>>, <<2, 0>>>> >>

LineIdx == 1 .. 8

At(g, cell) == g[cell[1]][cell[2]]

OwnsLine(g, i, p) == \A k \in 1 .. 3 : At(g, WinLines[i][k]) = p

LineComplete(g, i) == \E p \in Player : OwnsLine(g, i, p)

HasLine(g, p) == \E i \in LineIdx : OwnsLine(g, i, p)

Cells == Idx \X Idx

OccupiedCount(g) == Cardinality({cell \in Cells : At(g, cell) # None})

\* the cell the typed number n names
CellOf(n) == <<(n - 1) \div 3, (n - 1) % 3>>

-----------------------------------------------------------------------------
(* C1 *)

\* C1 as stated: after the win check of any grid, winner is Some(p) if and
\* only if some line is fully p's, and None if no line is complete.
C1_ExactForEveryBoard ==
    pc = "match" =>
        /\ \A p \in Player : (winner = p <=> HasLine(grid, p))
        /\ (~\E p \in Player : HasLine(grid, p)) => winner = None

\* C1 amended: after the win check of any grid, winner is None if and only
\* if no line is complete; a winner Some(p) owns a complete line; and when
\* only one player owns complete lines, winner is that player.
C1_WinDetection ==
    pc = "match" =>
        /\ winner = None <=> ~\E p \in Player : HasLine(grid, p)
        /\ winner # None => HasLine(grid, winner)
        /\ \A p \in Player :
              HasLine(grid, p) /\ ~HasLine(grid, Other(p)) => winner = p

C1_Witness ==
    /\ pc = "match"
    /\ winner = "X"
    /\ OwnsLine(grid, 8, "X")
    /\ ~HasLine(grid, "O")

-----------------------------------------------------------------------------
(* C2 *)

\* the input of this iteration is one C2 names: text that is no number, a
\* number above 9, or a number 1..9 naming an occupied square
RejectedInput ==
    /\ pc \in {"parsed", "validate"}
    /\ \/ guess.tag = "Err"
       \/ guess.tag = "Ok" /\ guess.val > 9
       \/ /\ guess.tag = "Ok"
          /\ guess.val \in 1 .. 9
          /\ At(grid, CellOf(guess.val)) # None

\* C2: every step of an iteration whose input is rejected leaves grid,
\* current_turn and winner as they were, and leads to the validation of the
\* same input or back to the prompt, of the same player.
C2_RejectedInputKeepsState ==
    [][RejectedInput =>
          /\ grid' = grid
          /\ current_turn' = current_turn
          /\ winner' = winner
          /\ pc' \in {"validate", "prompt"}
          /\ pc' = "validate" => guess' = guess]_vars

C2_Witness ==
    /\ pc = "prompt"
    /\ last_iteration = "rejected"
    /\ current_turn = "O"
    /\ OccupiedCount(grid) = 3

-----------------------------------------------------------------------------
(* C3 *)

\* C3: a winner is present only between the win check and the end of the
\* program; the only step taken with a winner is the one that ends the loop,
\* it changes neither grid nor current_turn nor winner, and no step leaves
\* the final state.
C3_WinEndsTheLoop ==
    /\ [](winner # None => pc \in {"match", "done"})
    /\ [][winner # None =>
             /\ pc = "match"
             /\ pc' = "done"
             /\ grid' = grid
             /\ current_turn' = current_turn
             /\ winner' = winner]_vars

C3_Witness ==
    /\ pc = "done"
    /\ winner = "O"
    /\ current_turn = "O"

-----------------------------------------------------------------------------
(* C4 *)

\* the iteration placed the mark of current_turn on the square it read
PlacedThisIteration ==
    /\ guess.tag = "Ok"
    /\ guess.val \in 1 .. 9
    /\ square = guess.val - 1
    /\ At(grid, CellOf(guess.val)) = current_turn

\* C4: current_turn changes in exactly the steps taken after a placement
\* was evaluated with no winner, and then to the other player; once winner
\* is Some(_), winner stays Some(_) and current_turn never changes.
C4_TurnTogglesExactlyAfterNoWin ==
    /\ [](pc = "toggle" => winner = None /\ PlacedThisIteration)
    /\ [][/\ current_turn' # current_turn <=> pc = "toggle"
          /\ current_turn' # current_turn => current_turn' = Other(current_turn)
          /\ winner # None => winner' # None /\ current_turn' = current_turn
         ]_vars

C4_Witness ==
    /\ pc = "prompt"
    /\ last_iteration = "placed"
    /\ current_turn = "X"
    /\ OccupiedCount(grid) = 2

-----------------------------------------------------------------------------
(* C5 *)

\* C5: a cell that holds a player's mark holds the same mark after every
\* step, and at most 9 cells are occupied.
C5_CellsWriteOnce ==
    /\ [](OccupiedCount(grid) <= 9)
    /\ [][\A cell \in Cells :
             At(grid, cell) # None => At(grid', cell) = At(grid, cell)]_vars

C5_Witness ==
    /\ OccupiedCount(grid) = 9
    /\ last_iteration = "rejected"

-----------------------------------------------------------------------------
(* C6 *)

\* the input of this iteration parsed as an unsigned integer outside 1..9
OutOfRangeInput ==
    /\ pc \in {"parsed", "validate"}
    /\ guess.tag = "Ok"
    /\ guess.val \notin 1 .. 9

\* every step of an iteration whose input is a number outside 1..9 keeps the
\* process running and the board as it was, on the way back to the prompt
OutOfRangeStep ==
    OutOfRangeInput =>
        /\ grid' = grid
        /\ current_turn' = current_turn
        /\ winner' = winner
        /\ pc' \in {"validate", "prompt"}

\* C6 as stated: a number outside 1..9, 0 included, is silently rejected:
\* the process keeps running, the state is unchanged and the same player is
\* prompted again.
C6_OutOfRangeIsRejected == [][OutOfRangeStep]_vars

\* what holds of the code: the same, in a build without overflow checks
C6_WithoutOverflowChecks == [][~overflow_checks => OutOfRangeStep]_vars

\* and with them, of every number above 9
C6_AboveNine == [][guess.val # 0 => OutOfRangeStep]_vars

-----------------------------------------------------------------------------
(* C7 *)

\* C7 as stated: once read_line has met the end of the input, the process
\* terminates abnormally: past the statement that read, it is nowhere but in
\* the panic, and it never prompts or reads again.
C7_EndOfInputIsFatal == last_read = "eof" => pc \in {"parsed", "panicked"}

\* what the code does at the end of the input: it prompts and reads again
C7_PromptsAgainAfterEof ==
    /\ last_read = "eof"
    /\ last_iteration = "unparsed"
    /\ pc = "read"

-----------------------------------------------------------------------------
(* C8 *)

\* the board is full, nobody has won, and the loop is asking for a move
DrawPosition ==
    /\ OccupiedCount(grid) = 9
    /\ winner = None
    /\ pc \in {"prompt", "read", "parsed", "validate"}

\* a step in which writing the prompt or reading the line fails
IoFailure == panic_msg' \in {"Could not flush stdout", "Failed to read line"}

DrawStep ==
    DrawPosition /\ ~IoFailure =>
        /\ DrawPosition'
        /\ grid' = grid
        /\ current_turn' = current_turn
        /\ winner' = winner

\* C8 as stated: from a full board without a winner, whatever is typed is
\* rejected: the loop goes on asking the same player, never terminates and
\* never changes grid, current_turn or winner.
C8_DrawLoopsForever == [][DrawStep]_vars

\* what holds of the code: the same, in a build without overflow checks
C8_WithoutOverflowChecks == [][~overflow_checks => DrawStep]_vars

\* the full board without a winner is reached, and asked about again
C8_DrawReached ==
    /\ DrawPosition
    /\ pc = "prompt"
    /\ last_iteration = "rejected"

-----------------------------------------------------------------------------
(* C9 *)

\* line i is the last complete line in the order of the win check
LastComplete(g, i) ==
    /\ LineComplete(g, i)
    /\ \A j \in LineIdx : j > i => ~LineComplete(g, j)

\* C9: after the win check of any grid, winner is the owner of the complete
\* line that comes last in the order rows, columns, main diagonal,
\* anti-diagonal; with the anti-diagonal complete, it is its owner.
C9_LastMatchWins ==
    pc = "match" =>
        /\ \A i \in LineIdx : LastComplete(grid, i) => OwnsLine(grid, i, winner)
        /\ LineComplete(grid, 8) => winner = grid[0][2]

\* two lines of different owners, the later one the winner's
C9_Witness ==
    /\ pc = "match"
    /\ OwnsLine(grid, 1, "O")
    /\ OwnsLine(grid, 3, "X")
    /\ winner = "X"

-----------------------------------------------------------------------------
(* C10 *)

\* C10: in every state of the program, a second win check of the same grid
\* yields the winner the first one yields; after the win check of an
\* iteration, another one leaves winner as it is.
C10_EvaluationIdempotent ==
    /\ EvaluatePass(grid, EvaluatePass(grid, winner))
           = EvaluatePass(grid, winner)
    /\ pc \in {"match", "toggle", "done"} => EvaluatePass(grid, winner) = winner

C10_Witness ==
    /\ pc = "match"
    /\ winner = "X"
    /\ OwnsLine(grid, 7, "X")

-----------------------------------------------------------------------------
(* C11 *)

CompleteLines(g) == {i \in LineIdx : LineComplete(g, i)}

\* the cell the latest placement wrote
LastPlaced == CellOf(guess.val)

ThroughCell(i, cell) == \E k \in 1 .. 3 : WinLines[i][k] = cell

\* C11 as stated: in a legal game no win check finds more than one complete
\* line on the board.
C11_AtMostOneLine ==
    pc = "evaluate" => Cardinality(CompleteLines(grid)) <= 1

\* C11 amended: in a legal game no win check finds complete lines of both
\* players; it finds at most two complete lines, all of them of the player
\* who just moved and through the cell just placed.
C11_OneOwnerAtMostTwoLines ==
    pc = "evaluate" =>
        /\ ~(HasLine(grid, "X") /\ HasLine(grid, "O"))
        /\ Cardinality(CompleteLines(grid)) <= 2
        /\ \A i \in CompleteLines(grid) :
              OwnsLine(grid, i, current_turn) /\ ThroughCell(i, LastPlaced)

\* one placement completing two lines
C11_Witness ==
    /\ pc = "evaluate"
    /\ Cardinality(CompleteLines(grid)) = 2

-----------------------------------------------------------------------------
(* C12 *)

\* the input of this iteration is a number 1..9 naming an empty square, and
\* the validation is about to decide on it
AcceptedInput ==
    /\ pc = "validate"
    /\ guess.tag = "Ok"
    /\ guess.val \in 1 .. 9
    /\ At(grid, CellOf(guess.val)) = None

\* C12: the step that follows an accepted input n writes the mark of
\* current_turn into the cell at row (n-1) div 3, column (n-1) mod 3, leaves
\* the other eight cells and current_turn unchanged; no other step changes
\* the grid.
C12_PlacementWritesOneCell ==
    /\ [][AcceptedInput =>
             /\ At(grid', CellOf(guess.val)) = current_turn
             /\ \A cell \in Cells \ {CellOf(guess.val)} :
                   At(grid', cell) = At(grid, cell)
             /\ current_turn' = current_turn
             /\ pc' = "print"]_vars
    /\ [][grid' # grid => AcceptedInput]_vars

\* the number 6 was accepted on a board holding one mark: row 1, column 2
C12_Witness ==
    /\ pc = "print"
    /\ guess = ParseOk(6)
    /\ current_turn = "O"
    /\ grid[1][2] = "O"
    /\ OccupiedCount(grid) = 2

-----------------------------------------------------------------------------
(* C13 *)

\* the marks the step writes: the cells that differ, with their new content
Written ==
    {<<cell, At(grid', cell)>> :
        cell \in {c \in Cells : At(grid', c) # At(grid, c)}}

\* the mark of the k-th placement
MarkOf(k) == IF k % 2 = 1 THEN "X" ELSE "O"

\* C13: play starts from the empty board with X to move and no winner, and
\* the k-th accepted placement writes an X when k is odd and an O when k is
\* even, whatever was rejected in between.
C13_StartAndAlternation ==
    /\ grid = EmptyGrid /\ current_turn = "X" /\ winner = None
    /\ placements = 0
    /\ [][placements' # placements =>
             /\ placements' = placements + 1
             /\ \E cell \in Cells : Written = {<<cell, MarkOf(placements')>>}
         ]_vars

\* the second placement, an O, made after an input was rejected
C13_Witness ==
    /\ pc = "print"
    /\ placements = 2
    /\ last_iteration \in {"rejected", "unparsed"}
    /\ At(grid, LastPlaced) = "O"

-----------------------------------------------------------------------------
(* C14 *)

\* the order of one iteration: prompt, read, parse, validate, mutate, print,
\* evaluate, then toggle or terminate; a panic or a `continue` leaves it
IterationOrder ==
    {<<"prompt", "read">>, <<"prompt", "panicked">>,
     <<"read", "parsed">>, <<"read", "panicked">>,
     <<"parsed", "validate">>, <<"parsed", "prompt">>,
     <<"parsed", "panicked">>,
     <<"validate", "print">>, <<"validate", "prompt">>,
     <<"print", "evaluate">>,
     <<"evaluate", "match">>,
     <<"match", "toggle">>, <<"match", "done">>,
     <<"toggle", "prompt">>}

\* C14: every step follows the order read, validate, mutate, print,
\* evaluate, toggle or terminate, and each effect has its place in it; one
\* board is printed for every accepted placement, the winning one included
\* and before the win message, none for a rejected input; the win message
\* comes only after the win check of the placement that completed a line.
C14_IterationOrderAndRendering ==
    /\ [][/\ <<pc, pc'>> \in IterationOrder
          /\ grid' # grid => pc = "validate" /\ pc' = "print"
          /\ renders' # renders =>
                pc = "print" /\ pc' = "evaluate" /\ renders' = renders + 1
          /\ winner' # winner => pc = "evaluate" /\ pc' = "match"
          /\ win_msg' # win_msg => pc = "match" /\ pc' = "done"
          /\ current_turn' # current_turn => pc = "toggle" /\ pc' = "prompt"
         ]_vars
    /\ [](renders = IF pc = "print" THEN placements - 1 ELSE placements)
    /\ [](pc = "print" => PlacedThisIteration)
    /\ [](win_msg # "" =>
             /\ pc = "done"
             /\ win_msg = WinMessage(winner)
             /\ renders = placements
             /\ \E i \in CompleteLines(grid) :
                   OwnsLine(grid, i, winner) /\ ThroughCell(i, LastPlaced))

\* five placements, five boards, then the message
C14_Witness ==
    /\ pc = "done"
    /\ win_msg = "X wins"
    /\ placements = 5
    /\ renders = 5

-----------------------------------------------------------------------------
(* C15 *)

\* C15: a winner Some(p) is the player whose turn it is and who wrote the
\* latest cell; every complete line on the board is p's, the other player
\* has none; and the message printed names p.
C15_WinnerIsTheMover ==
    winner # None =>
        /\ winner = current_turn
        /\ At(grid, LastPlaced) = winner
        /\ HasLine(grid, winner)
        /\ \A i \in CompleteLines(grid) : OwnsLine(grid, i, winner)
        /\ ~HasLine(grid, Other(winner))
        /\ pc = "done" =>
              win_msg = (IF current_turn = "X" THEN "X wins" ELSE "O wins")

C15_Witness ==
    /\ pc = "done"
    /\ winner = "O"
    /\ win_msg = "O wins"
    /\ At(grid, LastPlaced) = "O"

-----------------------------------------------------------------------------
(* C16 *)

\* the loop is about to ask, or is waiting, for input
AtPrompt == pc \in {"prompt", "read"}

\* C16: whenever the loop asks or waits for input, winner is None and no
\* line of the grid is complete.
C16_NoLineAtPrompt ==
    AtPrompt => winner = None /\ CompleteLines(grid) = {}

\* the prompt for the ninth move
C16_Witness ==
    /\ pc = "read"
    /\ placements = 8
    /\ last_iteration = "placed"

-----------------------------------------------------------------------------
(* C17 *)

Count(g, p) == Cardinality({cell \in Cells : At(g, cell) = p})

\* C17: in every state X has as many marks as O or one more; at a prompt
\* it is X's turn exactly when the counts are equal and O's exactly when X
\* has one more.
C17_CountsTrackTurn ==
    /\ Count(grid, "X") - Count(grid, "O") \in {0, 1}
    /\ AtPrompt =>
          /\ current_turn = "X" <=> Count(grid, "X") = Count(grid, "O")
          /\ current_turn = "O" <=> Count(grid, "X") = Count(grid, "O") + 1

C17_Witness ==
    /\ pc = "prompt"
    /\ current_turn = "O"
    /\ Count(grid, "X") = 3
    /\ Count(grid, "O") = 2

-----------------------------------------------------------------------------
(* C18 *)

\* C18: a winner is present only after the 5th to 9th accepted placement:
\* no state with fewer than 5 occupied cells has a winner, and no execution
\* makes more than 9 placements.
C18_WinOnFifthToNinth ==
    /\ placements <= 9
    /\ OccupiedCount(grid) < 5 => winner = None /\ win_msg = ""
    /\ winner # None => placements \in 5 .. 9

\* a win declared on the ninth placement
C18_Witness ==
    /\ pc = "done"
    /\ placements = 9
    /\ OccupiedCount(grid) = 9
    /\ winner = "X"

-----------------------------------------------------------------------------
(* C19 *)

\* the players enter the number of an empty square: the part of ReadLine
\* whose line parses to a number 1..9 naming an empty cell
ReadEmptySquare ==
    /\ pc = "read"
    /\ \E line \in Lines :
          LET g == ParseUsize(Trim(line)) IN
          /\ g.tag = "Ok"
          /\ g.val \in 1 .. 9
          /\ At(grid, CellOf(g.val)) = None
          /\ guess' = g
    /\ last_read' = "line"
    /\ pc' = "parsed"
    /\ UNCHANGED <<Board, square, last_iteration, panic_msg,
                   overflow_checks, Out>>

\* the steps the program takes by itself, without waiting for anything
ProgramStep ==
    \/ Prompt
    \/ RejectUnparsed
    \/ ToSquare
    \/ SubtractOverflows
    \/ RejectSquare
    \/ Place
    \/ PrintBoard
    \/ Evaluate
    \/ Win
    \/ NoWin
    \/ ToggleTurn

\* the program keeps running, and while a cell is empty and nobody has won
\* the players eventually enter the number of an empty square
SpecLive ==
    /\ Init
    /\ [][Next]_vars
    /\ WF_vars(ProgramStep)
    /\ SF_vars(ReadEmptySquare)

\* stdout or stdin failed, and the process ended on it
IoFailed ==
    /\ pc = "panicked"
    /\ panic_msg \in {"Could not flush stdout", "Failed to read line"}

\* C19 as stated: when the players keep entering numbers of empty squares,
\* every execution whose input and output streams work reaches the end of
\* the game with a winner, or the full board without one; rejected inputs
\* cannot prevent it.
C19_EventuallyWonOrFull == <>(pc = "done" \/ DrawPosition \/ IoFailed)

\* what holds of the code: the same, in a build without overflow checks
C19_WithoutOverflowChecks ==
    ~overflow_checks => <>(pc = "done" \/ DrawPosition \/ IoFailed)

\* the input 0 ended the process with empty cells and no winner
C19_StoppedByZero ==
    /\ pc = "panicked"
    /\ panic_msg = "attempt to subtract with overflow"
    /\ guess = ParseOk(0)
    /\ winner = None
    /\ OccupiedCount(grid) < 9

====
